---- MODULE Spec2Model ----
(***************************************************************************)
(* PomodoroTimer: the session ledger (database.py, DatabaseManager), its   *)
(* aggregation, the achievement evaluator (achievements.py) and the timer  *)
(* state machine (timer.py, PomodoroTrayApp).                              *)
(*                                                                         *)
(* Time.  A timestamp is an integer day * 24 + hour; NoTime stands for     *)
(* None / NULL.  The wall clock `now` only moves forward.  Only the date   *)
(* and the hour of a timestamp are read by the code that is modelled       *)
(* (date(start_time), strftime('%H', start_time), start_time.hour).        *)
(*                                                                         *)
(* Specifications.  Spec: the tray application.  SpecLedger: the          *)
(* DatabaseManager called directly, sessions in any order of dates.        *)
(* SpecStorage: the same on storage that can fail or become unreachable.   *)
(* SpecExpiry: work intervals expiring on storage that can fail.           *)
(* SpecTicking: the countdown under fair ticks, with no other request.     *)
(* SpecDaily: one completed session a day with the achievement evaluator.  *)
(* SpecLevel: the level functions over totals of completed sessions.       *)
(* SpecViews: the derived views of the achievements, a session a day.      *)
(* SpecRules: the rules the evaluator reads from the sessions themselves.  *)
(*                                                                         *)
(* Not modelled: end_time, tags, notes and the updated_at / last_updated   *)
(* stamps (written, never read by any modelled operation), and every       *)
(* presentation call (icons, tooltips, notifications, sounds).             *)
(***************************************************************************)
EXTENDS Integers, Sequences, FiniteSets, TLC

\* ---------------------------------------------------------------- bounds
MaxDay == 1            \* calendar days 0..MaxDay
MaxSessions == 2       \* rows the sessions table may hold
MaxWork == 3           \* largest configured work length, in seconds (debug mode)
ShortBreakSeconds == 1 \* configured short break, in seconds
LongBreakSeconds == 2  \* configured long break, in seconds
PomodorosUntilLong == 2 \* configured pomodoros_until_long_break

Days == 0..MaxDay
Hours == {9, 22}                          \* the hours of a day the clock visits
WorkDurations == 2..MaxWork               \* values the settings dialog may give work_duration
TaskTexts == {""}                         \* texts of task_input when work starts
ApiDays == Days                           \* start dates of sessions handed to save_session
ApiHours == {9, 22}                       \* their start hours
ApiTasks == {"a", "b"}                    \* their task names
ApiInterruptions == {0, 1}                \* their interruption counts
TieBreaks == {"lowest", "highest"}        \* row order SQLite gives groups of equal COUNT(*)
ApiDurations == {30, 90}                  \* their durations, in seconds
ScenarioDays == 10                        \* consecutive days of the one-session-a-day use
ViewDays == 3                             \* consecutive days the views are read over
DailyDuration == 1200                     \* work length of the sessions of that use, in seconds
MaxLevelTotal == 120                      \* every total of completed sessions up to it is tried
FailingHour == 9                          \* start hour of the sessions saved on failing storage
FailingDuration == 1200                   \* their duration, in seconds

NoTime == -1
Time(d, h) == d * 24 + h
DayOf(t) == t \div 24
HourOf(t) == t % 24
Clock == {Time(d, h) : d \in Days, h \in Hours}

VARIABLES
  \* PomodoroTrayApp
  state, previous_state, remaining, session_start, current_task, interruptions,
  daily_pomodoros, work_duration, timer_active, menu_active, running,
  \* DatabaseManager (the four tables) and the build's tie order
  sessions, daily_stats, user_stats, achievements, tie_break,
  \* DatabaseManager.connection is an open connection
  connected,
  \* environment and history
  now, elapsed, op

timerVars == <<state, previous_state, remaining, session_start, current_task,
               interruptions, daily_pomodoros, work_duration, timer_active,
               menu_active, running>>
dbVars == <<sessions, daily_stats, user_stats, achievements, tie_break, connected>>
vars == <<timerVars, dbVars, now, elapsed, op>>

\* ------------------------------------------------------------ arithmetic
Min(a, b) == IF a <= b THEN a ELSE b
Max(a, b) == IF a >= b THEN a ELSE b

\* SQLite's integer division truncates toward zero.
SqlIntDiv(a, b) == IF a >= 0 THEN a \div b ELSE -((-a) \div b)

\* f"{x:.1f}" of num/den, read back by get_user_stats as a float: kept in tenths.
RoundTenths(num, den) == IF num >= 0 THEN (20 * num + den) \div (2 * den)
                                     ELSE -((20 * (-num) + den) \div (2 * den))

RECURSIVE SumOver(_, _)
SumOver(f, I) == IF I = {} THEN 0
                 ELSE LET i == CHOOSE x \in I : TRUE IN f[i] + SumOver(f, I \ {i})

\* ------------------------------------------------- database.py: the ledger
\* PomodoroSession, as constructed by its callers (database.py:16-28).
PomodoroSession(start, duration, task, completed, intr, focus) ==
  [start_time |-> start, duration |-> duration, task_name |-> task,
   completed |-> completed, interruptions |-> intr, focus_score |-> focus]

\* Rows of `sessions` with date(start_time) = d AND completed = 1.
CompletedOn(S, d) == {i \in DOMAIN S : S[i].completed /\ DayOf(S[i].start_time) = d}

\* One GROUP BY strftime('%H', start_time) group of that selection.
HourGroup(S, d, h) == {i \in CompletedOn(S, d) : HourOf(S[i].start_time) = h}

GroupHours(S, d) == {HourOf(S[i].start_time) : i \in CompletedOn(S, d)}

\* ORDER BY COUNT(*) DESC LIMIT 1: the hour of a largest group; among equal
\* counts the order is the build's (tb), the same on every call.
TopHour(S, d, tb) ==
  LET hs == GroupHours(S, d)
      best == {h \in hs : \A g \in hs : Cardinality(HourGroup(S, d, g))
                                          <= Cardinality(HourGroup(S, d, h))}
  IN IF tb = "lowest" THEN CHOOSE h \in best : \A g \in best : h <= g
                      ELSE CHOOSE h \in best : \A g \in best : h >= g

\* Mutant: the backward count stops after a week.
RECURSIVE _calculate_streak_capped(_, _)
_calculate_streak_capped(S, d) ==
  LET RECURSIVE Back(_, _)
      Back(day, left) == IF left = 0 \/ CompletedOn(S, day) = {} THEN 0
                         ELSE 1 + Back(day - 1, left - 1)
  IN Back(d, 7)

\* _calculate_streak: days counted backward from d while each has a completed session.
RECURSIVE _calculate_streak(_, _)
_calculate_streak(S, d) ==
  IF CompletedOn(S, d) = {} THEN 0 ELSE 1 + _calculate_streak(S, d - 1)

\* The row _update_daily_stats builds from the first row of its SELECT: every
\* aggregate is over the one GROUP BY group that the LIMIT 1 keeps.
DailyRow(S, d, tb) ==
  LET h == TopHour(S, d, tb)
      g == HourGroup(S, d, h)
  IN [total_pomodoros |-> Cardinality(g),
      total_minutes |-> SqlIntDiv(SumOver([i \in DOMAIN S |-> S[i].duration], g), 60),
      avg_focus_score |-> <<SumOver([i \in DOMAIN S |-> S[i].focus_score], g), Cardinality(g)>>,
      completed_tasks |-> Cardinality({S[i].task_name : i \in g}),
      most_productive_hour |-> h,
      streak_days |-> _calculate_streak(S, d)]

\* INSERT OR REPLACE INTO daily_stats: the table is a function from its key.
Upsert(table, key, row) == [k \in DOMAIN table \cup {key} |-> IF k = key THEN row ELSE table[k]]

\* Mutant: the day's count is added to the count the row already holds.
_update_daily_stats_adding(S, ds, d, tb) ==
  IF CompletedOn(S, d) # {}
  THEN Upsert(ds, d, [DailyRow(S, d, tb) EXCEPT
                        !.total_pomodoros = @ + (IF d \in DOMAIN ds THEN ds[d].total_pomodoros ELSE 0)])
  ELSE ds

\* Mutant: a date with no completed session loses the row it had.
_update_daily_stats_deleting(S, ds, d, tb) ==
  IF CompletedOn(S, d) # {}
  THEN Upsert(ds, d, DailyRow(S, d, tb))
  ELSE [k \in DOMAIN ds \ {d} |-> ds[k]]

\* _update_daily_stats(date): the daily_stats table after the call.
_update_daily_stats(S, ds, d, tb) ==
  IF CompletedOn(S, d) # {} THEN Upsert(ds, d, DailyRow(S, d, tb)) ELSE ds

\* Mutant: total_tasks counted over the completed sessions only.
_update_user_stats_completed_tasks(S, ds) ==
  LET done == {i \in DOMAIN S : S[i].completed}
      total_pomodoros == Cardinality(done)
      total_seconds == SumOver([i \in DOMAIN S |-> S[i].duration], done)
      focus_sum == SumOver([i \in DOMAIN S |-> S[i].focus_score], done)
      streaks == {ds[d].streak_days : d \in DOMAIN ds}
  IN [total_pomodoros |-> total_pomodoros,
      total_hours |-> RoundTenths(total_seconds, 3600),
      total_tasks |-> Cardinality({S[i].task_name : i \in done}),
      avg_focus |-> IF total_pomodoros = 0 THEN 0 ELSE RoundTenths(focus_sum, total_pomodoros),
      max_streak |-> IF streaks = {} THEN 0 ELSE CHOOSE m \in streaks : \A x \in streaks : x <= m]

\* _update_user_stats: the user_stats table after the call (all keys replaced).
_update_user_stats(S, ds) ==
  LET done == {i \in DOMAIN S : S[i].completed}
      total_pomodoros == Cardinality(done)
      total_seconds == SumOver([i \in DOMAIN S |-> S[i].duration], done)
      focus_sum == SumOver([i \in DOMAIN S |-> S[i].focus_score], done)
      streaks == {ds[d].streak_days : d \in DOMAIN ds}
  IN [total_pomodoros |-> total_pomodoros,
      total_hours |-> RoundTenths(total_seconds, 3600),
      total_tasks |-> Cardinality({S[i].task_name : i \in DOMAIN S}),
      avg_focus |-> IF total_pomodoros = 0 THEN 0 ELSE RoundTenths(focus_sum, total_pomodoros),
      max_streak |-> IF streaks = {} THEN 0 ELSE CHOOSE m \in streaks : \A x \in streaks : x <= m]

\* get_daily_stats(date): the row, or None.
HasDailyStats(ds, d) == d \in DOMAIN ds

\* get_user_stats().get(key, 0)
StatsGet(us, key) == IF key \in DOMAIN us THEN us[key] ELSE 0

\* ------------------------------------- database.py: the achievement catalog
CountIds == {"first_pomodoro", "ten_pomodoros", "hundred_pomodoros", "thousand_pomodoros"}
StreakIds == {"three_day_streak", "week_streak", "month_streak", "year_streak"}
DailyIds == {"daily_goal", "early_bird", "night_owl", "perfect_day"}
FocusIds == {"perfect_focus", "focus_master", "deep_work"}
SpecialIds == {"weekend_warrior", "task_crusher", "marathon"}
MilestoneIds == {"time_traveler", "task_master"}
AchievementIds == CountIds \cup StreakIds \cup DailyIds \cup FocusIds \cup SpecialIds \cup MilestoneIds

\* max_progress of each catalog entry (_init_achievements).
MaxProgress(id) ==
  CASE id = "first_pomodoro" -> 1
    [] id = "ten_pomodoros" -> 10
    [] id = "hundred_pomodoros" -> 100
    [] id = "thousand_pomodoros" -> 1000
    [] id = "three_day_streak" -> 3
    [] id = "week_streak" -> 7
    [] id = "month_streak" -> 30
    [] id = "year_streak" -> 365
    [] id = "perfect_day" -> 8
    [] id = "focus_master" -> 5
    [] id = "deep_work" -> 10
    [] id = "weekend_warrior" -> 10
    [] id = "task_crusher" -> 10
    [] id = "marathon" -> 6000
    [] id = "time_traveler" -> 60000
    [] id = "task_master" -> 1000
    [] OTHER -> 1

\* The threshold _check_achievement compares a count, a streak or the hours with.
Target(id) ==
  CASE id = "first_pomodoro" -> 1
    [] id = "ten_pomodoros" -> 10
    [] id = "hundred_pomodoros" -> 100
    [] id = "thousand_pomodoros" -> 1000
    [] id = "three_day_streak" -> 3
    [] id = "week_streak" -> 7
    [] id = "month_streak" -> 30
    [] id = "year_streak" -> 365
    [] id = "daily_goal" -> 8
    [] id = "perfect_day" -> 8
    [] id = "marathon" -> 100
    [] id = "time_traveler" -> 1000
    [] OTHER -> 0

\* rarity of each catalog entry (_init_achievements; "common" is the default).
Rarity(id) ==
  CASE id \in {"hundred_pomodoros", "week_streak", "focus_master", "deep_work",
               "task_crusher"} -> "rare"
    [] id \in {"thousand_pomodoros", "month_streak", "marathon"} -> "epic"
    [] id \in {"year_streak", "time_traveler", "task_master"} -> "legendary"
    [] OTHER -> "common"

\* The order _init_achievements inserts the rows in.
CatalogOrder ==
  <<"first_pomodoro", "ten_pomodoros", "hundred_pomodoros", "thousand_pomodoros",
    "three_day_streak", "week_streak", "month_streak", "year_streak",
    "daily_goal", "early_bird", "night_owl", "perfect_day",
    "perfect_focus", "focus_master", "deep_work",
    "weekend_warrior", "task_crusher", "marathon",
    "time_traveler", "task_master">>

CatalogPos(id) == CHOOSE i \in DOMAIN CatalogOrder : CatalogOrder[i] = id

\* get_achievements: ORDER BY unlocked DESC, rarity (the text, ascending). The
\* order of the rows that agree on both is SQLite's choice: insertion order, or
\* its reverse.
RowOrders == {"rowid", "reverse"}

RarityRank(r) ==
  CASE r = "common" -> 0 [] r = "epic" -> 1 [] r = "legendary" -> 2 [] OTHER -> 3

RowPos(ach, id, order) ==
  (IF ach[id].unlocked THEN 0 ELSE 1000) + 100 * RarityRank(Rarity(id))
    + (IF order = "rowid" THEN CatalogPos(id) ELSE Len(CatalogOrder) + 1 - CatalogPos(id))

\* _init_achievements on an empty table: every row locked, no date, progress 0.
_init_achievements == [id \in AchievementIds |->
                         [unlocked |-> FALSE, unlocked_date |-> NoTime, progress |-> 0]]

\* Mutant: the seeding statement is INSERT OR REPLACE, a present row is reset.
insert_or_replace(ach) == _init_achievements

\* _init_achievements on a store that may hold rows already: INSERT OR IGNORE
\* adds the catalog rows that are missing and skips the ones that are present.
insert_or_ignore(ach) ==
  [id \in AchievementIds |-> IF id \in DOMAIN ach THEN ach[id] ELSE _init_achievements[id]]

\* update_achievement(id, progress=p)
SetProgress(ach, id, p) == [ach EXCEPT ![id].progress = p]

\* Mutant: the unlocking update sets the progress to max_progress as well.
SetUnlocked_completing(ach, id, t) ==
  [ach EXCEPT ![id].unlocked = TRUE, ![id].unlocked_date = t, ![id].progress = MaxProgress(id)]

\* update_achievement(id, unlocked=True): the flag and the date, nothing else.
SetUnlocked(ach, id, t) == [ach EXCEPT ![id].unlocked = TRUE, ![id].unlocked_date = t]

\* get_sessions(start_date=today): rows with date(start_time) >= today.
SessionsFrom(S, today) == {i \in DOMAIN S : DayOf(S[i].start_time) >= today}

\* -------------------------------------- achievements.py: the rule evaluator
\* Mutant: the session rules take a session whether it was completed or not.
CheckTrue_any_session(id, S, ds, us, today) ==
  CASE id \in CountIds -> StatsGet(us, "total_pomodoros") >= Target(id)
    [] id \in StreakIds -> HasDailyStats(ds, today) /\ ds[today].streak_days >= Target(id)
    [] id \in {"daily_goal", "perfect_day"} ->
         HasDailyStats(ds, today) /\ ds[today].total_pomodoros >= Target(id)
    [] id = "early_bird" ->
         \E i \in SessionsFrom(S, today) : HourOf(S[i].start_time) < 6
    [] id = "night_owl" ->
         \E i \in SessionsFrom(S, today) : HourOf(S[i].start_time) >= 22
    [] id = "perfect_focus" -> \E i \in DOMAIN S : S[i].interruptions = 0
    [] id \in {"marathon", "time_traveler"} -> StatsGet(us, "total_hours") >= 10 * Target(id)
    [] OTHER -> FALSE

\* Mutant: the thresholds of the counts must be exceeded, not only reached.
CheckTrue_exceeding(id, S, ds, us, today) ==
  CASE id \in CountIds -> StatsGet(us, "total_pomodoros") > Target(id)
    [] id \in StreakIds -> HasDailyStats(ds, today) /\ ds[today].streak_days >= Target(id)
    [] id \in {"daily_goal", "perfect_day"} ->
         HasDailyStats(ds, today) /\ ds[today].total_pomodoros >= Target(id)
    [] id = "early_bird" ->
         \E i \in SessionsFrom(S, today) : S[i].completed /\ HourOf(S[i].start_time) < 6
    [] id = "night_owl" ->
         \E i \in SessionsFrom(S, today) : S[i].completed /\ HourOf(S[i].start_time) >= 22
    [] id = "perfect_focus" -> \E i \in DOMAIN S : S[i].completed /\ S[i].interruptions = 0
    [] id \in {"marathon", "time_traveler"} -> StatsGet(us, "total_hours") >= 10 * Target(id)
    [] OTHER -> FALSE

\* _check_achievement returns True.
CheckTrue(id, S, ds, us, today) ==
  CASE id \in CountIds -> StatsGet(us, "total_pomodoros") >= Target(id)
    [] id \in StreakIds -> HasDailyStats(ds, today) /\ ds[today].streak_days >= Target(id)
    [] id \in {"daily_goal", "perfect_day"} ->
         HasDailyStats(ds, today) /\ ds[today].total_pomodoros >= Target(id)
    [] id = "early_bird" ->
         \E i \in SessionsFrom(S, today) : S[i].completed /\ HourOf(S[i].start_time) < 6
    [] id = "night_owl" ->
         \E i \in SessionsFrom(S, today) : S[i].completed /\ HourOf(S[i].start_time) >= 22
    [] id = "perfect_focus" -> \E i \in DOMAIN S : S[i].completed /\ S[i].interruptions = 0
    [] id \in {"marathon", "time_traveler"} -> StatsGet(us, "total_hours") >= 10 * Target(id)
    [] OTHER -> FALSE

\* _check_achievement leaves its if/elif chain without returning, and so goes on
\* to _update_achievement_progress: a branch that returns a comparison never does.
FallsThrough(id, S, ds, us, today) ==
  CASE id \in CountIds -> FALSE
    [] id \in StreakIds -> ~HasDailyStats(ds, today)
    [] id \in {"daily_goal", "perfect_day"} -> ~HasDailyStats(ds, today)
    [] id \in {"marathon", "time_traveler"} -> FALSE
    [] OTHER -> ~CheckTrue(id, S, ds, us, today)

\* Mutant: the progress without its min(..., max_progress).
ComputedProgress_unclamped(id, ds, us, today) ==
  CASE id \in CountIds -> StatsGet(us, "total_pomodoros")
    [] id \in StreakIds -> IF HasDailyStats(ds, today) THEN ds[today].streak_days ELSE 0
    [] id = "perfect_day" -> IF HasDailyStats(ds, today) THEN ds[today].total_pomodoros ELSE 0
    [] id \in {"marathon", "time_traveler"} -> StatsGet(us, "total_hours") * 6
    [] OTHER -> 0

\* The progress _update_achievement_progress computes (total_hours is in tenths).
ComputedProgress(id, ds, us, today) ==
  CASE id \in CountIds -> Min(StatsGet(us, "total_pomodoros"), MaxProgress(id))
    [] id \in StreakIds ->
         IF HasDailyStats(ds, today) THEN Min(ds[today].streak_days, MaxProgress(id)) ELSE 0
    [] id = "perfect_day" ->
         IF HasDailyStats(ds, today) THEN Min(ds[today].total_pomodoros, MaxProgress(id)) ELSE 0
    [] id \in {"marathon", "time_traveler"} ->
         Min(StatsGet(us, "total_hours") * 6, MaxProgress(id))
    [] OTHER -> 0

\* Mutant: the progress of every achievement is the count of pomodoros.
_update_achievement_progress_counting(ach, id, ds, us, today) ==
  LET p == Min(StatsGet(us, "total_pomodoros"), MaxProgress(id))
  IN IF p # ach[id].progress THEN SetProgress(ach, id, p) ELSE ach

\* _update_achievement_progress: writes only when the value differs.
_update_achievement_progress(ach, id, ds, us, today) ==
  LET p == ComputedProgress(id, ds, us, today)
  IN IF p # ach[id].progress THEN SetProgress(ach, id, p) ELSE ach

\* Mutant: the loop body without its skip of the achievements already unlocked.
CheckOne_restamping(ach, id, S, ds, us, t) ==
  IF CheckTrue(id, S, ds, us, DayOf(t)) THEN SetUnlocked(ach, id, t)
  ELSE IF FallsThrough(id, S, ds, us, DayOf(t))
       THEN _update_achievement_progress(ach, id, ds, us, DayOf(t))
       ELSE ach

\* One pass of check_achievements' loop body over achievement id.
CheckOne(ach, id, S, ds, us, t) ==
  IF ach[id].unlocked THEN ach
  ELSE IF CheckTrue(id, S, ds, us, DayOf(t)) THEN SetUnlocked(ach, id, t)
  ELSE IF FallsThrough(id, S, ds, us, DayOf(t))
       THEN _update_achievement_progress(ach, id, ds, us, DayOf(t))
       ELSE ach

\* check_achievements: each pass touches only its own row and reads no other.
check_achievements(ach, S, ds, us, t) ==
  [id \in AchievementIds |-> CheckOne(ach, id, S, ds, us, t)[id]]

\* get_next_achievements: every locked achievement with max_progress > 1 goes
\* through _update_achievement_progress before the list is built.
get_next_achievements(ach, ds, us, t) ==
  [id \in AchievementIds |->
     IF ~ach[id].unlocked /\ MaxProgress(id) > 1
     THEN _update_achievement_progress(ach, id, ds, us, DayOf(t))[id]
     ELSE ach[id]]

\* The rows get_next_achievements lists: locked, max_progress > 1, and a
\* percentage above 0 by the progress get_achievements read (the Achievement
\* objects are not touched by _update_achievement_progress).
Upcoming(ach) ==
  {id \in AchievementIds : ~ach[id].unlocked /\ MaxProgress(id) > 1 /\ ach[id].progress > 0}

\* a comes before b after upcoming.sort(key=progress, reverse=True): the higher
\* percentage first, rows of equal percentage in the order they were read.
SortsBefore(ach, a, b, order) ==
  LET pa == ach[a].progress * MaxProgress(b)
      pb == ach[b].progress * MaxProgress(a)
  IN pa > pb \/ (pa = pb /\ RowPos(ach, a, order) < RowPos(ach, b, order))

\* The list get_next_achievements returns, from the rows as get_achievements
\* read them; progress is the percentage progress / max_progress * 100 as the
\* pair <<numerator, denominator>>.
upcoming(ach, limit, order) ==
  LET Q == Upcoming(ach)
      rank(q) == Cardinality({r \in Q : SortsBefore(ach, r, q, order)})
  IN [i \in 1..Min(limit, Cardinality(Q)) |->
        LET q == CHOOSE q \in Q : rank(q) = i - 1
        IN [achievement |-> q,
            progress |-> <<ach[q].progress * 100, MaxProgress(q)>>,
            remaining |-> MaxProgress(q) - ach[q].progress]]

\* get_unlocked_count: total, unlocked, and the unlocked of each rarity.
get_unlocked_count(ach) ==
  LET unlocked == {id \in DOMAIN ach : ach[id].unlocked}
  IN [total |-> Cardinality(DOMAIN ach),
      unlocked |-> Cardinality(unlocked),
      by_rarity |-> [r \in {"common", "rare", "epic", "legendary"} |->
                       Cardinality({id \in unlocked : Rarity(id) = r})]]

\* get_recent_unlocks(days): the achievements unlocked at or after now - days
\* (the members of the list; it is sorted by unlock date, latest first).
get_recent_unlocks(ach, days, t) ==
  {id \in DOMAIN ach : /\ ach[id].unlocked
                       /\ ach[id].unlocked_date # NoTime
                       /\ ach[id].unlocked_date >= t - 24 * days}

\* The list check_achievements returns: the ids it unlocked.
NewlyUnlocked(ach, S, ds, us, t) ==
  {id \in AchievementIds : ~ach[id].unlocked /\ CheckTrue(id, S, ds, us, DayOf(t))}

\* ------------------------------------------ achievements.py: the levels
\* int(10 * (1.15 ** (level - 1))) for level = 1..100, as the float arithmetic
\* of _init_level_thresholds gives it (the floor of the exact power each time).
LevelRequired ==
  <<
     10, 11, 13, 15, 17, 20, 23, 26, 30, 35,
     40, 46, 53, 61, 70, 81, 93, 107, 123, 142,
     163, 188, 216, 248, 286, 329, 378, 435, 500, 575,
     662, 761, 875, 1006, 1158, 1331, 1531, 1761, 2025, 2329,
     2678, 3080, 3542, 4073, 4684, 5387, 6195, 7125, 8194, 9423,
     10836, 12462, 14331, 16481, 18953, 21796, 25065, 28825, 33149, 38121,
     43839, 50415, 57978, 66675, 76676, 88177, 101404, 116615, 134107, 154223,
     177357, 203960, 234554, 269738, 310198, 356728, 410237, 471773, 542539, 623920,
     717508, 825135, 948905, 1091241, 1254927, 1443166, 1659641, 1908587, 2194875, 2524107,
     2902723, 3338131, 3838851, 4414679, 5076881, 5838413, 6714175, 7721301, 8879496, 10211421
  >>

\* _init_level_thresholds: [0], then each entry the last plus the level's need.
RECURSIVE ThresholdsUpTo(_)
ThresholdsUpTo(level) ==
  IF level = 0 THEN <<0>>
  ELSE LET before == ThresholdsUpTo(level - 1)
       IN Append(before, before[Len(before)] + LevelRequired[level])

_init_level_thresholds == ThresholdsUpTo(Len(LevelRequired))

\* The loop of get_level from list position i on (position i holds level i - 1).
RECURSIVE LevelScan(_, _, _)
LevelScan(total, i, level) ==
  IF i > Len(_init_level_thresholds) THEN level
  ELSE IF total >= _init_level_thresholds[i] THEN LevelScan(total, i + 1, i - 1)
  ELSE level

\* Mutant: a level is entered only above its threshold.
get_level_above(us) ==
  LET RECURSIVE Scan(_, _)
      Scan(i, level) ==
        IF i > Len(_init_level_thresholds) THEN level
        ELSE IF StatsGet(us, "total_pomodoros") > _init_level_thresholds[i]
             THEN Scan(i + 1, i - 1)
             ELSE level
  IN Scan(1, 0)

get_level(us) == LevelScan(StatsGet(us, "total_pomodoros"), 1, 0)

\* get_level_progress; progress, a float in the code, is kept as the pair
\* <<numerator, denominator>> of (level_progress / level_required) * 100.
get_level_progress(us) ==
  LET total == StatsGet(us, "total_pomodoros")
      current_level == get_level(us)
      th == _init_level_thresholds
  IN IF current_level >= Len(th) - 1
     THEN [level |-> current_level, current_exp |-> total, next_level_exp |-> total,
           progress |-> <<100, 1>>, pomodoros_to_next |-> 0]
     ELSE [level |-> current_level, current_exp |-> total,
           next_level_exp |-> th[current_level + 2],
           progress |-> <<(total - th[current_level + 1]) * 100,
                          th[current_level + 2] - th[current_level + 1]>>,
           pomodoros_to_next |-> th[current_level + 2] - total]

\* ------------------------------------------- database.py: save_session
\* save_session when storage works: the INSERT commits, then the day of the
\* session's start and the lifetime totals are recomputed. <<sessions,
\* daily_stats, user_stats, returned id>>.
SaveCommitted(S, ds, us, session, tb) ==
  LET S1 == Append(S, session)
      ds1 == _update_daily_stats(S1, ds, DayOf(session.start_time), tb)
  IN <<S1, ds1, _update_user_stats(S1, ds1), Len(S1)>>

\* Mutant: a lost recomputation undoes the INSERT and the call answers -1.
SaveWithStats_rolling_back(S, ds, us, session, tb, daily_ok, user_ok) ==
  IF daily_ok /\ user_ok
  THEN SaveCommitted(S, ds, us, session, tb)
  ELSE <<S, ds, us, -1>>

\* The same with each of the two recomputations either done or lost: both
\* swallow their own exceptions, and save_session returns the id all the same.
SaveWithStats(S, ds, us, session, tb, daily_ok, user_ok) ==
  LET S1 == Append(S, session)
      ds1 == IF daily_ok THEN _update_daily_stats(S1, ds, DayOf(session.start_time), tb) ELSE ds
      us1 == IF user_ok THEN _update_user_stats(S1, ds1) ELSE us
  IN <<S1, ds1, us1, Len(S1)>>

\* Mutant: the rollback of a failed INSERT takes the last stored session with it.
SaveFailed_truncating(S, ds, us) ==
  <<IF S = <<>> THEN S ELSE SubSeq(S, 1, Len(S) - 1), ds, us, -1>>

\* save_session when the INSERT raises: rollback, reconnect, return -1.
SaveFailed(S, ds, us) == <<S, ds, us, -1>>

\* What storage does to one call: "ok" runs every statement; "error" raises in
\* a statement (locked, read-only, full) while the file can still be opened;
\* "unreachable" raises in the statement and in sqlite3.connect as well.
StorageOutcomes == {"ok", "error", "unreachable"}

\* Outcomes met by the timer's own saves (the file stays reachable).
TimerStorage == {"ok", "error"}

\* The reconnect of an except branch: close(), then sqlite3.connect(db_path);
\* when connect raises, self.connection stays the closed connection.
Reconnected(storage) == storage # "unreachable"

\* save_session on a connection that is open (conn) or closed: cursor() on a
\* closed connection raises whatever the storage.
\* <<sessions, daily_stats, user_stats, returned id, connection open>>.
save_session(conn, S, ds, us, session, tb, storage, daily_ok, user_ok) ==
  IF conn /\ storage = "ok"
  THEN SaveWithStats(S, ds, us, session, tb, daily_ok, user_ok) \o <<TRUE>>
  ELSE SaveFailed(S, ds, us) \o <<Reconnected(storage)>>

\* ------------------------------------------------ timer.py: PomodoroTrayApp
TimerStates == {"idle", "working", "short_break", "long_break", "paused"}
BreakStates == {"short_break", "long_break"}
NoState == "None"
DefaultTask == "unnamed"      \* the placeholder label start_work puts for an empty text

\* calculate_focus_score
calculate_focus_score(intr) == Max(0, 100 - intr * 10)

\* Mutant: the counter is taken from the number of sessions in the ledger.
update_daily_stats_counting_sessions(S, ds, today, tb) == <<ds, Len(S)>>

\* PomodoroTrayApp.update_daily_stats: today's row read back into the in-memory
\* counter, after one more _update_daily_stats when there is no row.
\* <<daily_stats, daily_pomodoros>>.
update_daily_stats(S, ds, today, tb) ==
  IF HasDailyStats(ds, today) THEN <<ds, ds[today].total_pomodoros>>
  ELSE LET ds1 == _update_daily_stats(S, ds, today, tb)
       IN <<ds1, IF HasDailyStats(ds1, today) THEN ds1[today].total_pomodoros ELSE 0>>

\* Mutant: the expired interval recorded with the penalty of one interruption more.
CompletedSession_ExtraPenalty(start, wd, task, intr) ==
  PomodoroSession(start, wd, task, TRUE, intr, calculate_focus_score(intr + 1))

\* The session complete_session records for an expired work interval.
CompletedSession(start, wd, task, intr) ==
  PomodoroSession(start, wd, task, TRUE, intr, calculate_focus_score(intr))

\* The session quit_app records for a work interval in progress.
IncompleteSession(start, wd, rem, task, intr) ==
  PomodoroSession(start, wd - rem, task, FALSE, intr, calculate_focus_score(intr))

\* The break type complete_session chooses from the counter.
is_long_break(dp, n) == dp > 0 /\ dp % n = 0

\* History: the handler that ran last, what it returned (a session id, -1 for a
\* failed save, the date of an update, else 0) and the timer state it started in.
Op(name, ret) == [name |-> name, ret |-> ret, from |-> state, storage |-> "ok"]

\* The same for a handler whose call met the given storage outcome.
OpOn(name, ret, storage) == [name |-> name, ret |-> ret, from |-> state, storage |-> storage]

Init ==
  /\ state = "idle"
  /\ previous_state = NoState
  /\ remaining = 0
  /\ session_start = NoTime
  /\ current_task = ""
  /\ interruptions = 0
  /\ daily_pomodoros = 0
  /\ work_duration \in WorkDurations
  /\ timer_active = FALSE
  /\ menu_active = FALSE
  /\ running = TRUE
  /\ sessions = <<>>
  /\ daily_stats = [d \in {} |-> 0]
  /\ user_stats = [k \in {} |-> 0]
  /\ achievements = _init_achievements
  /\ tie_break \in TieBreaks
  /\ connected = TRUE
  /\ now = Time(0, CHOOSE h \in Hours : \A g \in Hours : h <= g)
  /\ elapsed = 0
  /\ op = [name |-> "init", ret |-> 0, from |-> "idle", storage |-> "ok"]

\* Mutant: start_work without its state check.
start_work_unguarded(text) ==
  /\ running
  /\ Len(sessions) < MaxSessions
  /\ current_task' = IF text = "" THEN DefaultTask ELSE text
  /\ state' = "working"
  /\ remaining' = work_duration
  /\ session_start' = now
  /\ interruptions' = 0
  /\ timer_active' = TRUE
  /\ menu_active' = TRUE
  /\ elapsed' = 0
  /\ op' = Op(IF state = "idle" THEN "start_work" ELSE "start_work_ignored", 0)
  /\ UNCHANGED <<previous_state, daily_pomodoros, work_duration, running, dbVars, now>>

\* start_work; the menu entry and the tray click both end here.
start_work(text) ==
  /\ running
  /\ IF state # "idle"
     THEN /\ op' = Op("start_work_ignored", 0)
          /\ UNCHANGED <<timerVars, dbVars, now, elapsed>>
     ELSE /\ Len(sessions) < MaxSessions
          /\ current_task' = IF text = "" THEN DefaultTask ELSE text
          /\ state' = "working"
          /\ remaining' = work_duration
          /\ session_start' = now
          /\ interruptions' = 0
          /\ timer_active' = TRUE
          /\ menu_active' = TRUE
          /\ elapsed' = 0
          /\ op' = Op("start_work", 0)
          /\ UNCHANGED <<previous_state, daily_pomodoros, work_duration, running, dbVars, now>>

StartWork == \E text \in TaskTexts : start_work(text)

\* Mutant: resume always goes back to working.
toggle_pause_to_working ==
  /\ running
  /\ menu_active \/ state # "idle"
  /\ IF state = "paused"
     THEN /\ state' = "working"
          /\ timer_active' = TRUE
          /\ op' = Op("resume", 0)
          /\ UNCHANGED previous_state
     ELSE /\ previous_state' = state
          /\ state' = "paused"
          /\ timer_active' = FALSE
          /\ op' = Op("pause", 0)
  /\ UNCHANGED <<remaining, session_start, current_task, interruptions, daily_pomodoros,
                 work_duration, menu_active, running, dbVars, now, elapsed>>

\* Mutant: a pause counts as an interruption of the interval.
toggle_pause_interrupting ==
  /\ running
  /\ menu_active \/ state # "idle"
  /\ IF state = "paused"
     THEN /\ state' = previous_state
          /\ timer_active' = TRUE
          /\ op' = Op("resume", 0)
          /\ UNCHANGED <<previous_state, interruptions>>
     ELSE /\ previous_state' = state
          /\ state' = "paused"
          /\ timer_active' = FALSE
          /\ interruptions' = interruptions + 1
          /\ op' = Op("pause", 0)
  /\ UNCHANGED <<remaining, session_start, current_task, daily_pomodoros,
                 work_duration, menu_active, running, dbVars, now, elapsed>>

\* Mutant: the pause entry of the menu is enabled in every state, idle included.
toggle_pause_always_enabled ==
  /\ running
  /\ IF state = "paused"
     THEN /\ state' = previous_state
          /\ timer_active' = TRUE
          /\ op' = Op("resume", 0)
          /\ UNCHANGED previous_state
     ELSE /\ previous_state' = state
          /\ state' = "paused"
          /\ timer_active' = FALSE
          /\ op' = Op("pause", 0)
  /\ UNCHANGED <<remaining, session_start, current_task, interruptions, daily_pomodoros,
                 work_duration, menu_active, running, dbVars, now, elapsed>>

\* toggle_pause; the menu entry is enabled while the menu is active, the tray
\* click reaches it in every state but idle.
toggle_pause ==
  /\ running
  /\ menu_active \/ state # "idle"
  /\ IF state = "paused"
     THEN /\ state' = previous_state
          /\ timer_active' = TRUE
          /\ op' = Op("resume", 0)
          /\ UNCHANGED previous_state
     ELSE /\ previous_state' = state
          /\ state' = "paused"
          /\ timer_active' = FALSE
          /\ op' = Op("pause", 0)
  /\ UNCHANGED <<remaining, session_start, current_task, interruptions, daily_pomodoros,
                 work_duration, menu_active, running, dbVars, now, elapsed>>

\* Mutant: skip_current records a skipped work interval as an incomplete session.
skip_current_recording ==
  /\ running
  /\ menu_active
  /\ timer_active' = FALSE
  /\ state' = "idle"
  /\ remaining' = 0
  /\ menu_active' = FALSE
  /\ op' = Op("skip", 0)
  /\ LET saved == IF state = "working"
                  THEN SaveCommitted(sessions, daily_stats, user_stats,
                                     IncompleteSession(session_start, work_duration, remaining,
                                                       current_task, interruptions), tie_break)
                  ELSE <<sessions, daily_stats, user_stats, 0>>
     IN /\ sessions' = saved[1]
        /\ daily_stats' = saved[2]
        /\ user_stats' = saved[3]
  /\ UNCHANGED <<previous_state, session_start, current_task, interruptions, daily_pomodoros,
                 work_duration, running, achievements, tie_break, connected, now, elapsed>>

\* Mutant: skip_current without its timer.stop().
skip_current_ticking_on ==
  /\ running
  /\ menu_active
  /\ state' = "idle"
  /\ remaining' = 0
  /\ menu_active' = FALSE
  /\ op' = Op("skip", 0)
  /\ UNCHANGED <<previous_state, session_start, current_task, interruptions, daily_pomodoros,
                 work_duration, timer_active, running, dbVars, now, elapsed>>

\* skip_current; its menu entry is enabled while the menu is active.
skip_current ==
  /\ running
  /\ menu_active
  /\ timer_active' = FALSE
  /\ state' = "idle"
  /\ remaining' = 0
  /\ menu_active' = FALSE
  /\ op' = Op("skip", 0)
  /\ UNCHANGED <<previous_state, session_start, current_task, interruptions, daily_pomodoros,
                 work_duration, running, dbVars, now, elapsed>>

\* Mutant: a tick takes two seconds off the countdown.
TickDown_by_two ==
  /\ running /\ timer_active
  /\ remaining - 1 > 0
  /\ remaining' = remaining - 2
  /\ elapsed' = elapsed + 1
  /\ op' = Op("tick", 0)
  /\ UNCHANGED <<state, previous_state, session_start, current_task, interruptions,
                 daily_pomodoros, work_duration, timer_active, menu_active, running,
                 dbVars, now>>

\* update_timer with the countdown still above zero after the decrement.
TickDown ==
  /\ running /\ timer_active
  /\ remaining - 1 > 0
  /\ remaining' = remaining - 1
  /\ elapsed' = elapsed + 1
  /\ op' = Op("tick", 0)
  /\ UNCHANGED <<state, previous_state, session_start, current_task, interruptions,
                 daily_pomodoros, work_duration, timer_active, menu_active, running,
                 dbVars, now>>

\* Mutant: an exception of the save escapes complete_session; the countdown
\* update_timer stopped is not started again and the state stays working.
complete_session_raising(storages, outcomes) ==
  /\ running /\ timer_active
  /\ remaining - 1 <= 0
  /\ state = "working"
  /\ \E storage \in storages, daily_ok \in outcomes, user_ok \in outcomes,
        evaluated \in outcomes :
       LET session == CompletedSession(session_start, work_duration, current_task, interruptions)
           saved == save_session(connected, sessions, daily_stats, user_stats, session,
                                 tie_break, storage, daily_ok, user_ok)
           ds2 == IF saved[5]
                  THEN _update_daily_stats(saved[1], saved[2], DayOf(now), tie_break)
                  ELSE saved[2]
           upd == IF saved[5]
                  THEN update_daily_stats(saved[1], ds2, DayOf(now), tie_break)
                  ELSE <<ds2, 0>>
           long == is_long_break(upd[2], PomodorosUntilLong)
           raised == saved[4] = -1
       IN /\ sessions' = saved[1]
          /\ daily_stats' = upd[1]
          /\ user_stats' = saved[3]
          /\ daily_pomodoros' = upd[2]
          /\ achievements' = IF saved[5] /\ evaluated
                             THEN check_achievements(achievements, saved[1], upd[1], saved[3], now)
                             ELSE achievements
          /\ state' = IF raised THEN state ELSE IF long THEN "long_break" ELSE "short_break"
          /\ remaining' = IF raised THEN remaining - 1
                          ELSE IF long THEN LongBreakSeconds ELSE ShortBreakSeconds
          /\ timer_active' = ~raised
          /\ connected' = saved[5]
          /\ op' = OpOn("expire_work", saved[4], storage)
  /\ menu_active' = TRUE
  /\ elapsed' = elapsed + 1
  /\ UNCHANGED <<previous_state, session_start, current_task, interruptions, work_duration,
                 running, tie_break, now>>

\* Mutant: the achievements are evaluated before the session is saved and the
\* statistics recomputed.
complete_session_evaluating_first(storages, outcomes) ==
  /\ running /\ timer_active
  /\ remaining - 1 <= 0
  /\ state = "working"
  /\ \E storage \in storages, daily_ok \in outcomes, user_ok \in outcomes,
        evaluated \in outcomes :
       LET session == CompletedSession(session_start, work_duration, current_task, interruptions)
           saved == save_session(connected, sessions, daily_stats, user_stats, session,
                                 tie_break, storage, daily_ok, user_ok)
           ds2 == IF saved[5]
                  THEN _update_daily_stats(saved[1], saved[2], DayOf(now), tie_break)
                  ELSE saved[2]
           upd == IF saved[5]
                  THEN update_daily_stats(saved[1], ds2, DayOf(now), tie_break)
                  ELSE <<ds2, 0>>
           long == is_long_break(upd[2], PomodorosUntilLong)
       IN /\ sessions' = saved[1]
          /\ daily_stats' = upd[1]
          /\ user_stats' = saved[3]
          /\ daily_pomodoros' = upd[2]
          /\ achievements' = IF connected /\ evaluated
                             THEN check_achievements(achievements, sessions, daily_stats,
                                                     user_stats, now)
                             ELSE achievements
          /\ state' = IF long THEN "long_break" ELSE "short_break"
          /\ remaining' = IF long THEN LongBreakSeconds ELSE ShortBreakSeconds
          /\ connected' = saved[5]
          /\ op' = OpOn("expire_work", saved[4], storage)
  /\ timer_active' = TRUE
  /\ menu_active' = TRUE
  /\ elapsed' = elapsed + 1
  /\ UNCHANGED <<previous_state, session_start, current_task, interruptions, work_duration,
                 running, tie_break, now>>

\* update_timer reaching zero in state working: complete_session records the
\* interval, recomputes the statistics, evaluates the achievements and starts
\* the break. The save meets one of the given storage outcomes; each of the two
\* recomputations inside save_session, and the evaluation, is done or lost
\* (every DatabaseManager method swallows its own exceptions, complete_session
\* the rest). While the connection stays closed no later statement runs:
\* get_daily_stats answers None and the counter is read back as 0.
complete_session(storages, outcomes) ==
  /\ running /\ timer_active
  /\ remaining - 1 <= 0
  /\ state = "working"
  /\ \E storage \in storages, daily_ok \in outcomes, user_ok \in outcomes,
        evaluated \in outcomes :
       LET session == CompletedSession(session_start, work_duration, current_task, interruptions)
           saved == save_session(connected, sessions, daily_stats, user_stats, session,
                                 tie_break, storage, daily_ok, user_ok)
           ds2 == IF saved[5]
                  THEN _update_daily_stats(saved[1], saved[2], DayOf(now), tie_break)
                  ELSE saved[2]
           upd == IF saved[5]
                  THEN update_daily_stats(saved[1], ds2, DayOf(now), tie_break)
                  ELSE <<ds2, 0>>
           long == is_long_break(upd[2], PomodorosUntilLong)
       IN /\ sessions' = saved[1]
          /\ daily_stats' = upd[1]
          /\ user_stats' = saved[3]
          /\ daily_pomodoros' = upd[2]
          /\ achievements' = IF saved[5] /\ evaluated
                             THEN check_achievements(achievements, saved[1], upd[1], saved[3], now)
                             ELSE achievements
          /\ state' = IF long THEN "long_break" ELSE "short_break"
          /\ remaining' = IF long THEN LongBreakSeconds ELSE ShortBreakSeconds
          /\ connected' = saved[5]
          /\ op' = OpOn("expire_work", saved[4], storage)
  /\ timer_active' = TRUE
  /\ menu_active' = TRUE
  /\ elapsed' = elapsed + 1
  /\ UNCHANGED <<previous_state, session_start, current_task, interruptions, work_duration,
                 running, tie_break, now>>

\* The expiry as the running application meets it: the file stays reachable and
\* the statements after the INSERT run.
ExpireWork == complete_session(TimerStorage, {TRUE})

\* Mutant: complete_session records a session for an expired break too.
ExpireBreak_Recording ==
  /\ running /\ timer_active
  /\ remaining - 1 <= 0
  /\ state \in BreakStates
  /\ remaining' = remaining - 1
  /\ timer_active' = FALSE
  /\ state' = "idle"
  /\ menu_active' = FALSE
  /\ elapsed' = elapsed + 1
  /\ op' = Op("expire_break", 0)
  /\ LET saved == SaveCommitted(sessions, daily_stats, user_stats,
                                CompletedSession(session_start, work_duration, current_task,
                                                 interruptions), tie_break)
     IN /\ sessions' = saved[1]
        /\ daily_stats' = saved[2]
        /\ user_stats' = saved[3]
  /\ UNCHANGED <<previous_state, session_start, current_task, interruptions, daily_pomodoros,
                 work_duration, running, achievements, tie_break, connected, now>>

\* update_timer reaching zero in a break: complete_session returns to idle.
ExpireBreak ==
  /\ running /\ timer_active
  /\ remaining - 1 <= 0
  /\ state \in BreakStates
  /\ remaining' = remaining - 1
  /\ timer_active' = FALSE
  /\ state' = "idle"
  /\ menu_active' = FALSE
  /\ elapsed' = elapsed + 1
  /\ op' = Op("expire_break", 0)
  /\ UNCHANGED <<previous_state, session_start, current_task, interruptions, daily_pomodoros,
                 work_duration, running, dbVars, now>>

\* show_settings accepted: apply_settings re-reads the durations from the config.
apply_settings ==
  /\ running
  /\ \E w \in WorkDurations : work_duration' = w
  /\ op' = Op("apply_settings", 0)
  /\ UNCHANGED <<state, previous_state, remaining, session_start, current_task, interruptions,
                 daily_pomodoros, timer_active, menu_active, running, dbVars, now, elapsed>>

\* The process is gone: nothing of PomodoroTrayApp is left but the database file.
\* The in-memory fields are given their construction values.
Exited ==
  /\ running' = FALSE
  /\ state' = "idle"
  /\ previous_state' = NoState
  /\ remaining' = 0
  /\ session_start' = NoTime
  /\ current_task' = ""
  /\ interruptions' = 0
  /\ daily_pomodoros' = 0
  /\ timer_active' = FALSE
  /\ menu_active' = FALSE
  /\ elapsed' = 0
  /\ connected' = FALSE
  /\ UNCHANGED <<work_duration, achievements, tie_break, now>>

\* Mutant: quit_app saves the elapsed part of a paused work interval too.
quit_app_saving_paused ==
  /\ running
  /\ IF (state = "working" \/ (state = "paused" /\ previous_state = "working"))
        /\ session_start # NoTime
     THEN \E storage \in TimerStorage :
            LET session == IncompleteSession(session_start, work_duration, remaining,
                                             current_task, interruptions)
                saved == save_session(connected, sessions, daily_stats, user_stats, session,
                                      tie_break, storage, TRUE, TRUE)
            IN /\ sessions' = saved[1]
               /\ daily_stats' = saved[2]
               /\ user_stats' = saved[3]
               /\ op' = OpOn("quit_app", saved[4], storage)
     ELSE /\ op' = Op("quit_app", 0)
          /\ UNCHANGED <<sessions, daily_stats, user_stats>>
  /\ Exited

\* quit_app (the menu's exit entry): a work interval in progress is saved as an
\* incomplete session, the connection is closed, the application quits.
quit_app ==
  /\ running
  /\ IF state = "working" /\ session_start # NoTime
     THEN \E storage \in TimerStorage :
            LET session == IncompleteSession(session_start, work_duration, remaining,
                                             current_task, interruptions)
                saved == save_session(connected, sessions, daily_stats, user_stats, session,
                                      tie_break, storage, TRUE, TRUE)
            IN /\ sessions' = saved[1]
               /\ daily_stats' = saved[2]
               /\ user_stats' = saved[3]
               /\ op' = OpOn("quit_app", saved[4], storage)
     ELSE /\ op' = Op("quit_app", 0)
          /\ UNCHANGED <<sessions, daily_stats, user_stats>>
  /\ Exited

\* signal_handler (SIGINT): QApplication.quit() and sys.exit(0); quit_app is not called.
signal_handler ==
  /\ running
  /\ op' = Op("signal_handler", 0)
  /\ UNCHANGED <<sessions, daily_stats, user_stats>>
  /\ Exited

\* The wall clock moves to the next hour it visits.
AdvanceClock ==
  /\ running
  /\ \E t \in Clock : /\ t > now
                      /\ \A u \in Clock : u > now => t <= u
                      /\ now' = t
  /\ op' = Op("clock", 0)
  /\ UNCHANGED <<timerVars, dbVars, elapsed>>

Next ==
  \/ StartWork
  \/ toggle_pause
  \/ skip_current
  \/ TickDown
  \/ ExpireWork
  \/ ExpireBreak
  \/ apply_settings
  \/ quit_app
  \/ signal_handler
  \/ AdvanceClock

Spec == Init /\ [][Next]_vars

\* ------------------------------------------- DatabaseManager used directly
\* save_session(session) with a session of any start date: the ledger's own
\* operation, whatever the caller.
SaveAny(hours, durations, interruption_counts, storages, stats_outcomes) ==
  /\ running
  /\ Len(sessions) < MaxSessions
  /\ \E d \in ApiDays, h \in hours, dur \in durations, task \in ApiTasks,
        completed \in BOOLEAN, intr \in interruption_counts, storage \in storages,
        daily_ok \in stats_outcomes, user_ok \in stats_outcomes :
       LET session == PomodoroSession(Time(d, h), dur, task, completed, intr,
                                      calculate_focus_score(intr))
           saved == save_session(connected, sessions, daily_stats, user_stats, session,
                                 tie_break, storage, daily_ok, user_ok)
       IN /\ sessions' = saved[1]
          /\ daily_stats' = saved[2]
          /\ user_stats' = saved[3]
          /\ connected' = saved[5]
          /\ op' = OpOn("save_session", saved[4], storage)
  /\ UNCHANGED <<timerVars, achievements, tie_break, now, elapsed>>

\* Sessions of every shape, on storage that may raise in a statement.
api_save_session == SaveAny(ApiHours, ApiDurations, ApiInterruptions, TimerStorage, {TRUE})

\* _update_daily_stats(date) for any date. On a closed connection cursor()
\* raises, no row is written, and the except branch reconnects.
api_update_daily_stats ==
  /\ running
  /\ \E d \in Days :
       IF connected
       THEN /\ daily_stats' = _update_daily_stats(sessions, daily_stats, d, tie_break)
            /\ op' = Op("_update_daily_stats", d)
            /\ UNCHANGED connected
       ELSE \E storage \in StorageOutcomes :
              /\ connected' = Reconnected(storage)
              /\ op' = OpOn("_update_daily_stats_failed", d, storage)
              /\ UNCHANGED daily_stats
  /\ UNCHANGED <<timerVars, sessions, user_stats, achievements, tie_break, now, elapsed>>

\* _update_user_stats(). When a statement raises (closed connection, or the
\* storage in error) the transaction is rolled back and the table keeps what
\* it held; the connection is left as it is.
api_update_user_stats ==
  /\ running
  /\ \E storage \in {"ok", "error"} :
       IF connected /\ storage = "ok"
       THEN /\ user_stats' = _update_user_stats(sessions, daily_stats)
            /\ op' = Op("_update_user_stats", 0)
       ELSE /\ op' = OpOn("_update_user_stats_failed", -1, storage)
            /\ UNCHANGED user_stats
  /\ UNCHANGED <<timerVars, sessions, daily_stats, achievements, tie_break, connected,
                 now, elapsed>>

\* AchievementManager.check_achievements(); the history keeps how many it
\* unlocked. On a closed connection get_achievements answers the empty list
\* and nothing is evaluated.
api_check_achievements ==
  /\ running
  /\ IF connected
     THEN /\ achievements' = check_achievements(achievements, sessions, daily_stats,
                                                user_stats, now)
          /\ op' = Op("check_achievements",
                      Cardinality(NewlyUnlocked(achievements, sessions, daily_stats,
                                                user_stats, now)))
     ELSE /\ op' = Op("check_achievements", 0)
          /\ UNCHANGED achievements
  /\ UNCHANGED <<timerVars, sessions, daily_stats, user_stats, tie_break, connected,
                 now, elapsed>>

NextLedger ==
  \/ api_save_session
  \/ api_update_daily_stats

InitLedger == Init /\ work_duration = MaxWork

SpecLedger == InitLedger /\ [][NextLedger]_vars

\* --------------------------------- DatabaseManager on storage that can fail
\* Sessions of one hour, length and interruption count, on storage with every
\* outcome, each statistics update after the INSERT done or lost.
save_session_on_failing_storage ==
  SaveAny({FailingHour}, {FailingDuration}, {0}, StorageOutcomes, BOOLEAN)

\* Mutant: clear_all_data resets the flag and the date but keeps the progress.
ClearedAchievements_keeping_progress(ach) ==
  [id \in DOMAIN ach |-> [ach[id] EXCEPT !.unlocked = FALSE, !.unlocked_date = NoTime]]

\* UPDATE achievements SET unlocked = 0, unlocked_date = NULL, progress = 0:
\* every row, and no column but these three.
ClearedAchievements(ach) ==
  [id \in DOMAIN ach |->
     [ach[id] EXCEPT !.unlocked = FALSE, !.unlocked_date = NoTime, !.progress = 0]]

\* clear_all_data(), on a connection of its own (self.connection is not used).
\* When connect or a statement raises, the with block rolls back and the
\* exception reaches the caller: nothing is changed. The history keeps how many
\* sessions the call deleted, how many achievements it locked again and how
\* many rows it took the progress from.
clear_all_data ==
  /\ running
  /\ \E storage \in StorageOutcomes :
       IF storage = "ok"
       THEN /\ sessions' = <<>>
            /\ daily_stats' = [d \in {} |-> 0]
            /\ user_stats' = [k \in {} |-> 0]
            /\ achievements' = ClearedAchievements(achievements)
            /\ op' = Op("clear_all_data",
                        <<Len(sessions),
                          Cardinality({id \in DOMAIN achievements : achievements[id].unlocked}),
                          Cardinality({id \in DOMAIN achievements :
                                         achievements[id].progress # 0})>>)
       ELSE /\ op' = OpOn("clear_all_data_failed", -1, storage)
            /\ UNCHANGED <<sessions, daily_stats, user_stats, achievements>>
  /\ UNCHANGED <<timerVars, tie_break, connected, now, elapsed>>

NextStorage ==
  \/ save_session_on_failing_storage
  \/ api_update_daily_stats
  \/ api_update_user_stats
  \/ clear_all_data

SpecStorage == InitLedger /\ [][NextStorage]_vars

\* ------------------------------------------- work expiry on failing storage
\* The expiry with every storage outcome, and with each recomputation and the
\* evaluation done or lost.
ExpireWorkOnFailingStorage == complete_session(StorageOutcomes, BOOLEAN)

NextExpiry ==
  \/ StartWork
  \/ TickDown
  \/ ExpireWorkOnFailingStorage
  \/ ExpireBreak

SpecExpiry == Init /\ [][NextExpiry]_vars

\* ------------------------------------------------ the countdown left alone
\* Work intervals are started and nothing else is asked of the timer: no pause,
\* no skip, no settings, no exit. QTimer delivers its timeout every second
\* while it is active, so each tick that can be handled is handled in the end.
NextTicking ==
  \/ StartWork
  \/ TickDown
  \/ ExpireWork
  \/ ExpireBreak
  \/ AdvanceClock

\* The tick that ends a work interval is due: the conditions under which
\* update_timer hands over to complete_session in the working state. Every
\* storage outcome leads to a break, so the expiry is enabled exactly here.
WorkDue ==
  /\ running /\ timer_active
  /\ remaining - 1 <= 0
  /\ state = "working"

\* Weak fairness of the three outcomes of a tick. For the work expiry it is
\* written out, with WorkDue standing for ENABLED <<ExpireWork>>_vars.
SpecTicking ==
  /\ Init
  /\ [][NextTicking]_vars
  /\ WF_vars(TickDown)
  /\ ([]<>~WorkDue \/ []<><<ExpireWork>>_vars)
  /\ WF_vars(ExpireBreak)

\* ------------------------------------ one session a day, and the evaluator
\* A work interval of today is completed and saved; at most one a day.
daily_save_session ==
  /\ running
  /\ CompletedOn(sessions, DayOf(now)) = {}
  /\ LET session == PomodoroSession(now, DailyDuration, DefaultTask, TRUE, 0,
                                     calculate_focus_score(0))
         saved == SaveCommitted(sessions, daily_stats, user_stats, session, tie_break)
     IN /\ sessions' = saved[1]
        /\ daily_stats' = saved[2]
        /\ user_stats' = saved[3]
        /\ op' = Op("save_session", saved[4])
  /\ UNCHANGED <<timerVars, achievements, tie_break, connected, now, elapsed>>

\* AchievementManager.get_next_achievements(), as the achievements dialog calls it.
api_get_next_achievements ==
  /\ running
  /\ achievements' = get_next_achievements(achievements, daily_stats, user_stats, now)
  /\ op' = Op("get_next_achievements", 0)
  /\ UNCHANGED <<timerVars, sessions, daily_stats, user_stats, tie_break, connected,
                 now, elapsed>>

\* Midnight passes once today's session is saved.
next_day ==
  /\ running
  /\ CompletedOn(sessions, DayOf(now)) # {}
  /\ DayOf(now) < ScenarioDays - 1
  /\ now' = now + 24
  /\ op' = Op("clock", 0)
  /\ UNCHANGED <<timerVars, dbVars, elapsed>>

NextDaily ==
  \/ daily_save_session
  \/ api_check_achievements
  \/ api_get_next_achievements
  \/ next_day

InitDaily == InitLedger /\ tie_break = "lowest"

SpecDaily == InitDaily /\ [][NextDaily]_vars

\* --------------------------------------------------- the level functions
\* Totals of completed sessions the level functions are tried on: the small
\* ones, and each threshold with its two neighbours.
LevelTotals ==
  (0..MaxLevelTotal) \cup
  {t \in {_init_level_thresholds[i] + e : i \in DOMAIN _init_level_thresholds, e \in {-1, 0, 1}} :
     t >= 0}

\* user_stats as _update_user_stats leaves it for such a total (get_level reads
\* total_pomodoros only), or still empty.
LevelStats ==
  {[k \in {} |-> 0]} \cup
  {[total_pomodoros |-> n, total_hours |-> 0, total_tasks |-> 1, avg_focus |-> 1000,
    max_streak |-> 1] : n \in LevelTotals}

InitLevel ==
  /\ state = "idle"
  /\ previous_state = NoState
  /\ remaining = 0
  /\ session_start = NoTime
  /\ current_task = ""
  /\ interruptions = 0
  /\ daily_pomodoros = 0
  /\ work_duration = MaxWork
  /\ timer_active = FALSE
  /\ menu_active = FALSE
  /\ running = TRUE
  /\ sessions = <<>>
  /\ daily_stats = [d \in {} |-> 0]
  /\ user_stats \in LevelStats
  /\ achievements = _init_achievements
  /\ tie_break = "lowest"
  /\ connected = TRUE
  /\ now = Time(0, CHOOSE h \in Hours : \A g \in Hours : h <= g)
  /\ elapsed = 0
  /\ op = [name |-> "init", ret |-> 0, from |-> "idle", storage |-> "ok"]

api_get_level ==
  /\ running
  /\ op' = Op("get_level", get_level(user_stats))
  /\ UNCHANGED <<timerVars, dbVars, now, elapsed>>

api_get_level_progress ==
  /\ running
  /\ op' = Op("get_level_progress", get_level_progress(user_stats))
  /\ UNCHANGED <<timerVars, dbVars, now, elapsed>>

NextLevel ==
  \/ api_get_level
  \/ api_get_level_progress

SpecLevel == InitLevel /\ [][NextLevel]_vars

\* ------------------------------------------------------ the derived views
\* The achievements dialog and the menu read the views; a session a day is
\* saved and evaluated meanwhile, and clear_all_data may run.
ViewLimits == {2, 5}
ViewCutoffDays == {1, 7}

api_get_unlocked_count ==
  /\ running
  /\ op' = Op("get_unlocked_count", get_unlocked_count(achievements))
  /\ UNCHANGED <<timerVars, dbVars, now, elapsed>>

api_get_recent_unlocks ==
  /\ running
  /\ \E days \in ViewCutoffDays :
       op' = Op("get_recent_unlocks", get_recent_unlocks(achievements, days, now))
  /\ UNCHANGED <<timerVars, dbVars, now, elapsed>>

\* get_next_achievements(limit); the history keeps the limit and the list.
api_get_next_achievements_list ==
  /\ running
  /\ \E limit \in ViewLimits, order \in RowOrders :
       op' = Op("get_next_achievements",
                [limit |-> limit, upcoming |-> upcoming(achievements, limit, order)])
  /\ achievements' = get_next_achievements(achievements, daily_stats, user_stats, now)
  /\ UNCHANGED <<timerVars, sessions, daily_stats, user_stats, tie_break, connected,
                 now, elapsed>>

\* Midnight passes once today's session is saved.
next_view_day ==
  /\ running
  /\ CompletedOn(sessions, DayOf(now)) # {}
  /\ DayOf(now) < ViewDays - 1
  /\ now' = now + 24
  /\ op' = Op("clock", 0)
  /\ UNCHANGED <<timerVars, dbVars, elapsed>>

NextViews ==
  \/ daily_save_session
  \/ api_check_achievements
  \/ next_view_day
  \/ api_get_level
  \/ api_get_level_progress
  \/ api_get_unlocked_count
  \/ api_get_recent_unlocks
  \/ api_get_next_achievements_list
  \/ clear_all_data

SpecViews == InitDaily /\ [][NextViews]_vars

\* --------------------------------------------- the rules read from sessions
\* Sessions start at the wall clock, early, by day and late, completed or not,
\* with or without an interruption; the evaluator runs at any time.
RuleHours == {5, 9, 22}
RuleClock == {Time(d, h) : d \in Days, h \in RuleHours}

rule_save_session ==
  /\ running
  /\ Len(sessions) < MaxSessions
  /\ \E completed \in BOOLEAN, intr \in ApiInterruptions :
       LET session == PomodoroSession(now, DailyDuration, DefaultTask, completed, intr,
                                      calculate_focus_score(intr))
           saved == SaveCommitted(sessions, daily_stats, user_stats, session, tie_break)
       IN /\ sessions' = saved[1]
          /\ daily_stats' = saved[2]
          /\ user_stats' = saved[3]
          /\ op' = Op("save_session", saved[4])
  /\ UNCHANGED <<timerVars, achievements, tie_break, connected, now, elapsed>>

\* The wall clock moves to a later hour of the same day or of a later one.
rule_clock ==
  /\ running
  /\ \E t \in RuleClock : t > now /\ now' = t
  /\ op' = Op("clock", 0)
  /\ UNCHANGED <<timerVars, dbVars, elapsed>>

NextRules ==
  \/ rule_save_session
  \/ api_check_achievements
  \/ rule_clock

SpecRules == InitDaily /\ [][NextRules]_vars

\* ------------------------------------------------------------ restarts
\* The process ends and is launched again on the same database file: a new
\* DatabaseManager opens the file, creates the tables that do not exist and
\* seeds the catalog.
restart ==
  /\ running
  /\ achievements' = insert_or_ignore(achievements)
  /\ connected' = TRUE
  /\ op' = Op("restart", 0)
  /\ UNCHANGED <<timerVars, sessions, daily_stats, user_stats, tie_break, now, elapsed>>

NextRestart ==
  \/ daily_save_session
  \/ api_check_achievements
  \/ next_view_day
  \/ api_get_next_achievements_list
  \/ clear_all_data
  \/ restart

SpecRestart == InitDaily /\ [][NextRestart]_vars

\* ------------------------------------------- evaluation on failing storage
\* check_achievements while the UPDATEs of update_achievement succeed or raise
\* (the database is locked by another writer): update_achievement rolls back
\* and returns False, check_achievements does not read the result and appends
\* the achievement to its list. The history keeps the list.
check_achievements_on_failing_storage ==
  /\ running
  /\ connected
  /\ \E storage \in TimerStorage :
       /\ achievements' = IF storage = "ok"
                          THEN check_achievements(achievements, sessions, daily_stats,
                                                  user_stats, now)
                          ELSE achievements
       /\ op' = OpOn("check_achievements",
                     NewlyUnlocked(achievements, sessions, daily_stats, user_stats, now),
                     storage)
  /\ UNCHANGED <<timerVars, sessions, daily_stats, user_stats, tie_break, connected,
                 now, elapsed>>

NextUnlocks ==
  \/ daily_save_session
  \/ check_achievements_on_failing_storage
  \/ next_view_day
  \/ api_get_next_achievements_list

SpecUnlocks == InitDaily /\ [][NextUnlocks]_vars

\* ====================================================================
\* Claims
\* ====================================================================

\* The handler that ran last is complete_session for an expired work interval.
AfterWorkExpiry == op.name = "expire_work"

\* C1 (as claimed): after a work interval expires and its session is saved, the
\* break entered is long_break exactly when the number of completed sessions of
\* that day is a multiple of pomodoros_until_long_break, whatever their hours.
C1_LongBreakEveryNth ==
  (/\ AfterWorkExpiry
   /\ op.ret > 0
   /\ DayOf(sessions[Len(sessions)].start_time) = DayOf(now))
  => /\ state \in BreakStates
     /\ state = "long_break"
          <=> Cardinality(CompletedOn(sessions, DayOf(now))) % PomodorosUntilLong = 0

\* C2 (as claimed): after _update_daily_stats(D) for a date D with a completed
\* session, the row of D counts all completed sessions of D: their number, the
\* minutes of their summed durations, their distinct task names.
C2_DailyRowCountsAllCompleted ==
  (op.name = "_update_daily_stats" /\ CompletedOn(sessions, op.ret) # {})
  => LET d == op.ret
         all == CompletedOn(sessions, d)
     IN /\ HasDailyStats(daily_stats, d)
        /\ daily_stats[d].total_pomodoros = Cardinality(all)
        /\ daily_stats[d].total_minutes
             = SqlIntDiv(SumOver([i \in DOMAIN sessions |-> sessions[i].duration], all), 60)
        /\ daily_stats[d].completed_tasks = Cardinality({sessions[i].task_name : i \in all})

\* The session a work expiry is claimed to record, from the state before the step.
ExpectedCompleted ==
  [start_time |-> session_start, duration |-> work_duration, task_name |-> current_task,
   completed |-> TRUE, interruptions |-> interruptions,
   focus_score |-> Max(0, 100 - 10 * interruptions)]

\* update_timer runs, in state st, with the countdown reaching zero.
ReachesZeroIn(st) ==
  /\ op'.name \in {"tick", "expire_work", "expire_break"}
  /\ state \in st
  /\ remaining - 1 <= 0

\* C3 (as claimed): every time the countdown reaches zero in state working exactly
\* one session is appended: completed, of the configured work length, with the
\* timer's interruptions and the focus score max(0, 100 - 10 * interruptions).
C3_ExpiryAlwaysAppends ==
  [][ReachesZeroIn({"working"}) => sessions' = Append(sessions, ExpectedCompleted)]_vars

\* C3 (amended): when the countdown reaches zero in state working and the save
\* succeeds, exactly that one session is appended; when the save fails in storage
\* (save_session returns -1) the ledger is left as it was.
C3_ExpiryAppendsWhenSaved ==
  [][ReachesZeroIn({"working"}) =>
       /\ op'.name = "expire_work"
       /\ IF op'.ret > 0 THEN sessions' = Append(sessions, ExpectedCompleted)
                         ELSE sessions' = sessions]_vars

\* C3 witness: a work expiry has just saved its session.
C3_Witness ==
  /\ AfterWorkExpiry
  /\ op.ret = Len(sessions)
  /\ sessions[Len(sessions)].completed
  /\ sessions[Len(sessions)].duration = work_duration
  /\ sessions[Len(sessions)].focus_score = 100

\* C4: skip, from working, a break or paused, puts the timer in idle with the
\* countdown stopped and leaves the ledger, the daily statistics and the user
\* statistics unchanged.
C4_SkipRecordsNothing ==
  [][op'.name = "skip" =>
       /\ state \in {"working", "short_break", "long_break", "paused"}
       /\ state' = "idle"
       /\ ~timer_active'
       /\ UNCHANGED <<sessions, daily_stats, user_stats>>]_vars

\* C4 witness: a work interval that had run for a while was skipped; nothing is stored.
C4_Witness ==
  /\ op.name = "skip" /\ op.from = "working"
  /\ elapsed > 0
  /\ state = "idle"
  /\ sessions = <<>>

\* C5 (as claimed): every termination in state working persists exactly one
\* session, incomplete, whose duration is the elapsed countdown time; a termination
\* in any other state persists none. (Terminations whose save fails in storage
\* are left aside.)
C5_TerminationPersistsPartial ==
  [][(running /\ ~running' /\ op'.ret # -1) =>
       IF state = "working"
       THEN /\ Len(sessions') = Len(sessions) + 1
            /\ SubSeq(sessions', 1, Len(sessions)) = sessions
            /\ ~sessions'[Len(sessions')].completed
            /\ sessions'[Len(sessions')].duration = elapsed
       ELSE sessions' = sessions]_vars

\* C6: pause from working or a break moves to paused, stops the countdown and
\* keeps the remaining time; while paused neither the remaining time nor the
\* remembered state changes; resume returns to the remembered state with the
\* same remaining time and the countdown running.
C6_PauseResume ==
  [][/\ op'.name = "pause" =>
          /\ state \in {"working", "short_break", "long_break"}
          /\ state' = "paused" /\ previous_state' = state
          /\ ~timer_active' /\ remaining' = remaining
     /\ (state = "paused" /\ state' = "paused") =>
          /\ ~timer_active'
          /\ remaining' = remaining /\ previous_state' = previous_state
     /\ op'.name = "resume" =>
          /\ state = "paused"
          /\ state' = previous_state
          /\ state' \in {"working", "short_break", "long_break"}
          /\ timer_active' /\ remaining' = remaining]_vars

\* C6 witness: a long break, paused after its first tick, has been resumed.
C6_Witness ==
  /\ op.name = "resume"
  /\ state = "long_break"
  /\ remaining = LongBreakSeconds - 1
  /\ timer_active

\* C7: start in idle sets working, the configured work duration, no interruptions
\* and the session start; start in any other state changes none of them.
C7_StartOnlyFromIdle ==
  [][op'.name \in {"start_work", "start_work_ignored"} =>
       IF state = "idle"
       THEN /\ op'.name = "start_work"
            /\ state' = "working"
            /\ remaining' = work_duration
            /\ interruptions' = 0
            /\ session_start' = now
       ELSE UNCHANGED <<state, remaining, session_start, interruptions>>]_vars

\* C7 witness: start was invoked during a work interval that had already ticked.
C7_Witness ==
  /\ op.name = "start_work_ignored" /\ op.from = "working"
  /\ state = "working"
  /\ elapsed > 0
  /\ session_start < now

\* C8: when the countdown reaches zero in a break the timer goes to idle with
\* the countdown stopped, and the ledger is unchanged.
C8_BreakExpiryRecordsNothing ==
  [][ReachesZeroIn(BreakStates) =>
       /\ op'.name = "expire_break"
       /\ state' = "idle"
       /\ ~timer_active'
       /\ sessions' = sessions]_vars

\* C8 witness: a long break has expired after two sessions were recorded.
C8_Witness ==
  /\ op.name = "expire_break" /\ op.from = "long_break"
  /\ state = "idle"
  /\ Len(sessions) = 2

\* C9 (as claimed): for every date D with a completed session and a row, the
\* row's streak_days is 1 + streak_days of the row of D-1 when D-1 has a
\* completed session, and 1 otherwise, whatever the order the sessions were saved in.
C9_StreakInvariant ==
  \A d \in Days :
    (CompletedOn(sessions, d) # {} /\ HasDailyStats(daily_stats, d)) =>
      daily_stats[d].streak_days =
        IF CompletedOn(sessions, d - 1) # {} /\ HasDailyStats(daily_stats, d - 1)
        THEN 1 + daily_stats[d - 1].streak_days
        ELSE 1

\* C10: _update_daily_stats(D) called again right after _update_daily_stats(D),
\* with no session saved in between, leaves the daily_stats table as it is.
C10_UpdateDailyStatsIdempotent ==
  [][(/\ op.name = "_update_daily_stats"
      /\ op'.name = "_update_daily_stats"
      /\ op'.ret = op.ret)
     => daily_stats' = daily_stats]_vars

\* C10 witness: the update has just rewritten a stale row: the session of day 1
\* was saved before the session of day 0, so the row of day 1 held streak 1.
C10_Witness ==
  /\ op.name = "_update_daily_stats" /\ op.ret = 1
  /\ Len(sessions) = 2
  /\ sessions[1].completed /\ DayOf(sessions[1].start_time) = 1
  /\ sessions[2].completed /\ DayOf(sessions[2].start_time) = 0
  /\ daily_stats[1].streak_days = 2

\* C11: after an _update_user_stats() whose transaction commits, whatever the
\* table held before, total_pomodoros is the number of completed sessions,
\* total_tasks the number of distinct task names over all sessions, completed
\* or not, and max_streak the largest streak_days of the daily_stats rows (0
\* when there is no row).
C11_UserStatsRecomputed ==
  op.name = "_update_user_stats" =>
    /\ user_stats.total_pomodoros = Cardinality({i \in DOMAIN sessions : sessions[i].completed})
    /\ user_stats.total_tasks = Cardinality({sessions[i].task_name : i \in DOMAIN sessions})
    /\ \A d \in DOMAIN daily_stats : daily_stats[d].streak_days <= user_stats.max_streak
    /\ IF DOMAIN daily_stats = {}
       THEN user_stats.max_streak = 0
       ELSE \E d \in DOMAIN daily_stats : daily_stats[d].streak_days = user_stats.max_streak

\* C11 witness: both statistics updates of two saves were lost (no daily row,
\* one of the sessions incomplete); the update that then ran counted from the
\* ledger.
C11_Witness ==
  /\ op.name = "_update_user_stats"
  /\ Len(sessions) = 2
  /\ sessions[1].completed /\ ~sessions[2].completed
  /\ sessions[1].task_name # sessions[2].task_name
  /\ DOMAIN daily_stats = {}
  /\ user_stats.total_pomodoros = 1
  /\ user_stats.total_tasks = 2
  /\ user_stats.max_streak = 0

\* C12: once an achievement is unlocked, no session save, statistics update,
\* check_achievements call or get_next_achievements call locks it again or
\* changes its unlock date.
C12_UnlockedStaysUnlocked ==
  [][\A id \in AchievementIds :
       achievements[id].unlocked =>
         /\ achievements'[id].unlocked
         /\ achievements'[id].unlocked_date = achievements[id].unlocked_date]_vars

\* C12 witness: first_pomodoro, unlocked on day 0, is still so stamped after a
\* check_achievements of the third day that unlocked three_day_streak.
C12_Witness ==
  /\ op.name = "check_achievements"
  /\ DayOf(now) = 2
  /\ achievements["first_pomodoro"].unlocked
  /\ DayOf(achievements["first_pomodoro"].unlocked_date) = 0
  /\ achievements["three_day_streak"].unlocked
  /\ achievements["three_day_streak"].unlocked_date = now

\* C13 (as claimed): with no destructive edit, no step of saving, checking,
\* listing the next achievements or passing midnight lowers the stored
\* progress of any achievement.
C13_ProgressNeverDecreases ==
  [][\A id \in AchievementIds :
       achievements'[id].progress >= achievements[id].progress]_vars

\* C14 (as claimed): after check_achievements every achievement still locked
\* holds the progress of its rule family on the current statistics; a locked
\* cumulative-count achievement holds min(completed sessions, max_progress).
C14_LockedProgressCurrent ==
  op.name = "check_achievements" =>
    \A id \in AchievementIds :
      ~achievements[id].unlocked =>
        /\ achievements[id].progress
             = ComputedProgress(id, daily_stats, user_stats, DayOf(now))
        /\ id \in CountIds =>
             achievements[id].progress
               = Min(Cardinality({i \in DOMAIN sessions : sessions[i].completed}),
                     MaxProgress(id))

\* C15: every achievement has 0 <= progress <= max_progress.
C15_ProgressWithinBounds ==
  \A id \in AchievementIds :
    /\ 0 <= achievements[id].progress
    /\ achievements[id].progress <= MaxProgress(id)

\* C15 witness: three_day_streak, never checked, holds the clamped progress 3
\* on a day whose streak is longer.
C15_Witness ==
  /\ op.name = "get_next_achievements"
  /\ HasDailyStats(daily_stats, DayOf(now))
  /\ daily_stats[DayOf(now)].streak_days > MaxProgress("three_day_streak")
  /\ ~achievements["three_day_streak"].unlocked
  /\ achievements["three_day_streak"].progress = MaxProgress("three_day_streak")

\* C17: when each of ten consecutive days has one completed session and the
\* achievements are checked after the save of the tenth, the row of the tenth
\* day has streak_days = 10, week_streak is unlocked and month_streak is not.
C17_TenDayStreak ==
  (/\ op.name = "check_achievements"
   /\ DayOf(now) = 9
   /\ \A d \in 0..9 : Cardinality(CompletedOn(sessions, d)) = 1)
  => /\ HasDailyStats(daily_stats, 9)
     /\ daily_stats[9].streak_days = 10
     /\ achievements["week_streak"].unlocked
     /\ ~achievements["month_streak"].unlocked

\* C17 witness: the achievements were checked after every save, so week_streak
\* carries the date of the seventh day; the tenth day's check has run.
C17_Witness ==
  /\ op.name = "check_achievements"
  /\ DayOf(now) = 9
  /\ Len(sessions) = 10
  /\ daily_stats[9].streak_days = 10
  /\ DayOf(achievements["first_pomodoro"].unlocked_date) = 0
  /\ DayOf(achievements["three_day_streak"].unlocked_date) = 2
  /\ DayOf(achievements["week_streak"].unlocked_date) = 6
  /\ DayOf(achievements["ten_pomodoros"].unlocked_date) = 9
  /\ ~achievements["month_streak"].unlocked

\* C16: when the first session of the ledger is the one a work expiry saved, it
\* has no interruption and focus_score 100, and the check_achievements of that
\* expiry has unlocked first_pomodoro and perfect_focus.
C16_FirstCompletionUnlocks ==
  (op.name = "expire_work" /\ op.ret = 1)
  => /\ Len(sessions) = 1
     /\ sessions[1].completed
     /\ sessions[1].interruptions = 0
     /\ sessions[1].focus_score = 100
     /\ achievements["first_pomodoro"].unlocked
     /\ achievements["perfect_focus"].unlocked

\* C16 witness: the first work interval, started and expired today, is saved
\* and both achievements carry the time of the expiry.
C16_Witness ==
  /\ op.name = "expire_work" /\ op.ret = 1
  /\ DayOf(sessions[1].start_time) = DayOf(now)
  /\ sessions[1].focus_score = 100
  /\ achievements["first_pomodoro"].unlocked
  /\ achievements["first_pomodoro"].unlocked_date = now
  /\ achievements["perfect_focus"].unlocked
  /\ achievements["perfect_focus"].unlocked_date = now

\* C20 (as claimed): every session in the ledger has duration >= 0.
C20_NoNegativeDuration ==
  \A i \in DOMAIN sessions : sessions[i].duration >= 0

\* C19 (as claimed): a save_session that fails in storage, whatever the cause,
\* returns -1, leaves sessions, daily_stats and user_stats as they were and
\* ends with the connection open again, so that a save_session that follows
\* it on working storage succeeds.
C19_SaveFailureRecovers ==
  [][/\ (op'.name = "save_session" /\ op'.storage # "ok") =>
          /\ op'.ret = -1
          /\ UNCHANGED <<sessions, daily_stats, user_stats>>
          /\ connected'
     /\ (/\ op.name = "save_session" /\ op.ret = -1
         /\ op'.name = "save_session" /\ op'.storage = "ok") =>
          /\ op'.ret > 0
          /\ sessions' # sessions]_vars

\* C18: the 101 level thresholds start at 0 and strictly increase; get_level
\* returns the largest level whose threshold is <= total_pomodoros and so is
\* non-decreasing in it; with no completed session get_level is 0 and
\* get_level_progress reports level 0 with progress 0.
C18_Levels ==
  LET th == _init_level_thresholds
      total == StatsGet(user_stats, "total_pomodoros")
  IN /\ Len(th) = 101
     /\ th[1] = 0
     /\ \A i \in 1..100 : th[i] < th[i + 1]
     /\ op.name = "get_level" =>
          /\ op.ret \in 0..100
          /\ th[op.ret + 1] <= total
          /\ \A l \in 0..100 : th[l + 1] <= total => l <= op.ret
          /\ \A n \in LevelTotals :
               /\ n <= total => LevelScan(n, 1, 0) <= op.ret
               /\ n >= total => LevelScan(n, 1, 0) >= op.ret
          /\ total = 0 => op.ret = 0
     /\ (op.name = "get_level_progress" /\ total = 0) =>
          /\ op.ret.level = 0
          /\ op.ret.progress[1] = 0
          /\ op.ret.progress[2] > 0

\* C18 witness: get_level at exactly the last threshold returns level 100.
C18_Witness ==
  /\ op.name = "get_level"
  /\ StatsGet(user_stats, "total_pomodoros") = _init_level_thresholds[101]
  /\ op.ret = 100

\* C21: a recomputation of the statistics or an evaluation of the achievements
\* that is lost after the INSERT has committed neither undoes nor removes the
\* session: the expiry on an open connection and working storage appends the
\* session and save_session answers its id, whatever became of the statistics
\* and of the evaluation, and no step takes a stored session away.
C21_StatsFailureKeepsSession ==
  [][/\ (op'.name = "expire_work" /\ connected /\ op'.storage = "ok")
          => /\ sessions' = Append(sessions, CompletedSession(session_start, work_duration,
                                                              current_task, interruptions))
             /\ op'.ret = Len(sessions')
     /\ Len(sessions') >= Len(sessions)
     /\ SubSeq(sessions', 1, Len(sessions)) = sessions]_vars

\* A session saved by an expiry whose lifetime totals were never written and
\* whose evaluation unlocked nothing.
C21_Witness ==
  /\ op.name = "expire_work"
  /\ op.ret = Len(sessions)
  /\ op.ret > 0
  /\ DOMAIN user_stats = {}
  /\ ~achievements["first_pomodoro"].unlocked

\* C29: whatever fails while the session is saved, the statistics recomputed
\* and the achievements evaluated, the expiry of a work interval ends in a
\* break with the countdown running.
C29_FailureNeverBlocksTimer ==
  op.name = "expire_work" => /\ state \in BreakStates
                             /\ timer_active
                             /\ remaining > 0

\* An expiry whose save failed and left the connection closed, in its break.
C29_Witness ==
  /\ op.name = "expire_work"
  /\ op.ret = -1
  /\ ~connected
  /\ state \in BreakStates
  /\ timer_active

\* C22: after clear_all_data() the sessions, daily_stats and user_stats tables
\* are empty and every achievement is locked, has no unlock date and has
\* progress 0, and the catalog still holds the same ids (max_progress, category
\* and rarity are columns no statement of clear_all_data names).
C22_ClearAllEmptiesAndResets ==
  op.name = "clear_all_data"
    => /\ sessions = <<>>
       /\ DOMAIN daily_stats = {}
       /\ DOMAIN user_stats = {}
       /\ DOMAIN achievements = AchievementIds
       /\ \A id \in AchievementIds : /\ ~achievements[id].unlocked
                                     /\ achievements[id].unlocked_date = NoTime
                                     /\ achievements[id].progress = 0
       /\ achievements = _init_achievements

\* clear_all_data has just deleted sessions, locked achievements again and
\* taken the progress from others.
C22_Witness ==
  /\ op.name = "clear_all_data"
  /\ op.ret[1] > 1
  /\ op.ret[2] > 0
  /\ op.ret[3] > 0
  /\ sessions = <<>>
  /\ achievements = _init_achievements

\* C25: the ledger is append-only: every step that is not clear_all_data keeps
\* each stored session, unchanged and at its place, and can only add to them.
C25_LedgerAppendOnly ==
  [][op'.name # "clear_all_data"
       => /\ Len(sessions') >= Len(sessions)
          /\ SubSeq(sessions', 1, Len(sessions)) = sessions]_vars

\* A save that failed after a session was stored: the rollback left it there.
C25_Witness ==
  /\ op.name = "save_session"
  /\ op.ret = -1
  /\ Len(sessions) > 0

\* C23: get_level, get_level_progress, get_unlocked_count, get_recent_unlocks
\* and get_next_achievements are read-only: a call of any of them leaves the
\* achievement rows, the ledger and the statistics as they were.
C23_ViewsReadOnly ==
  [][op'.name \in {"get_level", "get_level_progress", "get_unlocked_count",
                   "get_recent_unlocks", "get_next_achievements"}
       => UNCHANGED <<sessions, daily_stats, user_stats, achievements>>]_vars

\* The percentage of list entry a is above that of entry b.
PctAbove(a, b) ==
  (a.progress[1] \div 100) * b.progress[2] > (b.progress[1] \div 100) * a.progress[2]

\* C24: get_next_achievements(limit) returns at most limit entries, each locked,
\* with max_progress > 1 and progress > 0, in descending order of percentage;
\* the percentage of each entry is that of the progress stored when the call
\* returns, and no locked achievement with max_progress > 1 and stored
\* progress > 0 that the list leaves out has a higher percentage than an entry.
C24_NextAchievements ==
  op.name = "get_next_achievements" =>
    LET L == op.ret.upcoming
        listed == {L[i].achievement : i \in DOMAIN L}
        stored(id) == [achievement |-> id,
                       progress |-> <<achievements[id].progress * 100, MaxProgress(id)>>,
                       remaining |-> MaxProgress(id) - achievements[id].progress]
    IN /\ Len(L) <= op.ret.limit
       /\ \A i \in DOMAIN L : /\ ~achievements[L[i].achievement].unlocked
                              /\ MaxProgress(L[i].achievement) > 1
                              /\ L[i].progress[1] > 0
       /\ \A i, j \in DOMAIN L : i < j => ~PctAbove(L[j], L[i])
       /\ \A i \in DOMAIN L : L[i].progress = stored(L[i].achievement).progress
       /\ \A id \in Upcoming(achievements) \ listed :
            \A i \in DOMAIN L : ~PctAbove(stored(id), L[i])

\* C26: _update_daily_stats(D) for a date D with no completed session writes
\* no row and leaves the whole daily_stats table as it is; and had the table
\* held a row for D (any row it holds, put at D), the call would have left
\* that table as it is too.
C26_NoCompletedSessionWritesNothing ==
  [][(op'.name = "_update_daily_stats" /\ CompletedOn(sessions, op'.ret) = {})
       => /\ daily_stats' = daily_stats
          /\ \A k \in DOMAIN daily_stats :
               LET held == Upsert(daily_stats, op'.ret, daily_stats[k])
               IN _update_daily_stats(sessions, held, op'.ret, tie_break) = held]_vars

\* The update has run for a date that has an incomplete session only, while
\* the table holds the row of another date.
C26_Witness ==
  /\ op.name = "_update_daily_stats"
  /\ CompletedOn(sessions, op.ret) = {}
  /\ \E i \in DOMAIN sessions : DayOf(sessions[i].start_time) = op.ret /\ ~sessions[i].completed
  /\ op.ret \notin DOMAIN daily_stats
  /\ DOMAIN daily_stats # {}

\* C27: at the expiry of a work interval whose save succeeds, all in the one
\* step that ends in the break: the session is appended; then the row of the
\* session's date is the one recomputed from the ledger that holds the session,
\* and total_pomodoros counts it; then the achievements are evaluated on these
\* statistics (the evaluation reads the ledger and the statistics as the step
\* leaves them).
C27_PersistThenStatsThenEvaluate ==
  [][(op'.name = "expire_work" /\ op'.ret > 0)
       => LET d == DayOf(session_start)
          IN /\ sessions' = Append(sessions, CompletedSession(session_start, work_duration,
                                                              current_task, interruptions))
             /\ op'.ret \in CompletedOn(sessions', d)
             /\ d \in DOMAIN daily_stats'
             /\ daily_stats'[d] = DailyRow(sessions', d, tie_break)
             /\ user_stats'.total_pomodoros
                  = Cardinality({i \in DOMAIN sessions' : sessions'[i].completed})
             /\ achievements' = check_achievements(achievements, sessions', daily_stats',
                                                   user_stats', now)
             /\ state' \in BreakStates]_vars

\* The expiry of the first work interval: the evaluation of the same step found
\* total_pomodoros = 1 and unlocked first_pomodoro, and the break has begun.
C27_Witness ==
  /\ op.name = "expire_work"
  /\ op.ret = 1
  /\ user_stats.total_pomodoros = 1
  /\ achievements["first_pomodoro"].unlocked
  /\ achievements["first_pomodoro"].unlocked_date = now
  /\ state \in BreakStates
  /\ timer_active

\* C28: perfect_day follows today's count of completed sessions: after
\* check_achievements it is unlocked when today has at least 8 of them, and
\* while it is locked its progress is the smaller of today's count and 8.
C28_PerfectDayFollowsCount ==
  op.name = "check_achievements" =>
    LET n == Cardinality(CompletedOn(sessions, DayOf(now)))
        row == achievements["perfect_day"]
    IN /\ n >= Target("perfect_day") => row.unlocked
       /\ ~row.unlocked => row.progress = Min(n, MaxProgress("perfect_day"))

\* C30: the timer state is always one of idle, working, short_break,
\* long_break and paused, and whenever it is paused the remembered previous
\* state is working, short_break or long_break.
C30_StatesAndPausedFrom ==
  /\ state \in TimerStates
  /\ state = "paused" => previous_state \in {"working"} \cup BreakStates

\* A long break has just been paused.
C30_Witness ==
  /\ state = "paused"
  /\ previous_state = "long_break"
  /\ op.name = "pause"
  /\ ~timer_active

\* What the rule of id asks of the ledger at the wall clock.
RulePredicate(id) ==
  CASE id = "early_bird" ->
         \E i \in DOMAIN sessions : /\ sessions[i].completed
                                    /\ DayOf(sessions[i].start_time) = DayOf(now)
                                    /\ HourOf(sessions[i].start_time) < 6
    [] id = "night_owl" ->
         \E i \in DOMAIN sessions : /\ sessions[i].completed
                                    /\ DayOf(sessions[i].start_time) = DayOf(now)
                                    /\ HourOf(sessions[i].start_time) >= 22
    [] OTHER ->
         \E i \in DOMAIN sessions : sessions[i].completed /\ sessions[i].interruptions = 0

\* C32: check_achievements unlocks early_bird, night_owl and perfect_focus
\* exactly on their predicate: after a call each is unlocked iff it was before
\* or some completed session of today started before 06:00 (early_bird), some
\* completed session of today started at or after 22:00 (night_owl), some
\* completed session has no interruption (perfect_focus); a session that is
\* not completed never counts.
C32_SessionRulesExact ==
  [][op'.name = "check_achievements"
       => \A id \in {"early_bird", "night_owl", "perfect_focus"} :
            achievements'[id].unlocked <=> (achievements[id].unlocked \/ RulePredicate(id))]_vars

\* An evaluation late in a day with a completed early session that had an
\* interruption and a late session, without one, that was not completed:
\* early_bird is unlocked, night_owl and perfect_focus are not.
C32_Witness ==
  /\ op.name = "check_achievements"
  /\ achievements["early_bird"].unlocked
  /\ achievements["early_bird"].unlocked_date = now
  /\ ~achievements["night_owl"].unlocked
  /\ ~achievements["perfect_focus"].unlocked
  /\ \E i \in DOMAIN sessions : /\ ~sessions[i].completed
                                /\ sessions[i].interruptions = 0
                                /\ sessions[i].start_time = now
                                /\ HourOf(now) >= 22

\* C31: under fair ticks, with no pause, skip, settings change or exit, every
\* work interval that is started expires into a break, on the tick that is the
\* work_duration-th since its start, and every break returns the timer to idle,
\* on the tick that is its own length after that.
C31_IntervalsRunOut ==
  /\ [](op.name = "expire_work" => elapsed = work_duration)
  /\ [](op.name = "expire_break"
          => elapsed = work_duration + (IF op.from = "long_break" THEN LongBreakSeconds
                                                                  ELSE ShortBreakSeconds))
  /\ (state = "working") ~> (state \in BreakStates)
  /\ (state \in BreakStates) ~> (state = "idle")

\* A long break has run out after a work interval of the longest length.
C31_Witness ==
  /\ op.name = "expire_break"
  /\ op.from = "long_break"
  /\ state = "idle"
  /\ work_duration = MaxWork
  /\ elapsed = MaxWork + LongBreakSeconds

\* C33: seeding the catalog again changes nothing: a restart on an existing
\* store leaves the unlocked flag, the unlock date and the progress of every
\* achievement as they were, and the catalog holds the same 20 identifiers in
\* every state.
C33_SeedingIdempotent ==
  /\ [][op'.name = "restart" => achievements' = achievements]_vars
  /\ [](DOMAIN achievements = AchievementIds /\ Cardinality(AchievementIds) = 20)
  /\ [](insert_or_ignore(insert_or_ignore(achievements)) = insert_or_ignore(achievements))

\* A restart on a store that holds an unlocked achievement and a progress.
C33_Witness ==
  /\ op.name = "restart"
  /\ \E id \in AchievementIds : achievements[id].unlocked /\ achievements[id].unlocked_date # NoTime
  /\ \E id \in AchievementIds : achievements[id].progress > 0

\* total_pomodoros of the row of day d, 0 when there is no row.
RowTotal(ds, d) == IF HasDailyStats(ds, d) THEN ds[d].total_pomodoros ELSE 0

C35_NoInterruptionEverCounted ==
  /\ interruptions = 0
  /\ \A i \in DOMAIN sessions : sessions[i].interruptions = 0 /\ sessions[i].focus_score = 100

\* A work interval that was paused and resumed has expired and is recorded.
C35_Witness ==
  /\ AfterWorkExpiry
  /\ op.ret > 0
  /\ previous_state = "working"
  /\ sessions[Len(sessions)].completed
  /\ sessions[Len(sessions)].focus_score = 100

\* C36: an exit taken while the timer is paused writes nothing, also when the
\* pause suspended a work interval that had run for a part of its length: the
\* ledger and the statistics stay as they were.
C36_PausedExitPersistsNothing ==
  [][(op'.name \in {"quit_app", "signal_handler"} /\ state = "paused")
       => /\ sessions' = sessions
          /\ daily_stats' = daily_stats
          /\ user_stats' = user_stats
          /\ op'.ret = 0]_vars

\* quit_app has run in the paused state and the ledger holds no session.
C36_Witness ==
  /\ op.name = "quit_app"
  /\ op.from = "paused"
  /\ ~running
  /\ sessions = <<>>

\* C37: in a check_achievements call an achievement that is unlocked gets the
\* flag and the date of the call and keeps the progress it had stored; a row
\* unlocked before is left as it is, and a row that stays locked keeps its flag
\* and date and changes at most by its own progress being written.
C37_UnlockTouchesFlagAndDate ==
  [][op'.name = "check_achievements"
       => \A id \in AchievementIds :
            IF ~achievements[id].unlocked /\ achievements'[id].unlocked
            THEN achievements'[id] = [achievements[id] EXCEPT !.unlocked = TRUE,
                                                              !.unlocked_date = now]
            ELSE /\ achievements'[id].unlocked = achievements[id].unlocked
                 /\ achievements'[id].unlocked_date = achievements[id].unlocked_date
                 /\ achievements[id].unlocked => achievements'[id] = achievements[id]
                 /\ achievements'[id].progress
                      \in {achievements[id].progress,
                           ComputedProgress(id, daily_stats, user_stats, DayOf(now))}]_vars

\* check_achievements has unlocked an achievement whose stored progress is
\* above 0 and below its max_progress, and the row still holds that progress.
C37_Witness ==
  /\ op.name = "check_achievements"
  /\ op.ret > 0
  /\ \E id \in AchievementIds :
       /\ achievements[id].unlocked
       /\ achievements[id].unlocked_date = now
       /\ achievements[id].progress > 0
       /\ achievements[id].progress < MaxProgress(id)

\* C38 (as claimed): without clear_all_data an achievement is in the list
\* check_achievements returns at most once; so two calls that follow one
\* another never return the same achievement.
C38_ListedAtMostOnce ==
  [][(op.name = "check_achievements" /\ op'.name = "check_achievements")
       => op.ret \cap op'.ret = {}]_vars

\* The catalog entries that neither _check_achievement nor
\* _update_achievement_progress has a branch for.
RulelessIds == {"focus_master", "deep_work", "weekend_warrior", "task_crusher", "task_master"}

ArmedStates == {"working"} \cup BreakStates

\* C40: the QTimer is active exactly in working, short_break and long_break;
\* a tick is handled only there; in idle and in paused the state and the
\* remaining time change only by a start, a resume, a skip or an exit; and
\* while the timer is active the remaining time is at least 1.
C40_ArmedExactlyWhenCounting ==
  /\ [](timer_active <=> (running /\ state \in ArmedStates))
  /\ [](timer_active => remaining >= 1)
  /\ [][op'.name \in {"tick", "expire_work", "expire_break"} => state \in ArmedStates]_vars
  /\ [][(state \in {"idle", "paused"} /\ (state' # state \/ remaining' # remaining))
         => op'.name \in {"start_work", "resume", "skip", "quit_app", "signal_handler"}]_vars

\* The settings were applied while a work interval with time left was paused:
\* the timer is not active, and the state and the remaining time are still there.
C40_Witness ==
  /\ op.name = "apply_settings"
  /\ op.from = "paused"
  /\ state = "paused"
  /\ previous_state = "working"
  /\ ~timer_active
  /\ remaining >= 1
  /\ remaining < work_duration

====
